---- MODULE Spec2Model ----
(***************************************************************************)
(* ConsoleErrorMonitor (src/console-error-monitor-update.js): the crawl    *)
(* orchestration of processUrls / processUrl, the aggregation into         *)
(* pageErrors and errorGroups, and run() with the summary of its report.   *)
(*                                                                         *)
(* JavaScript runs the code between two awaits atomically, so every action *)
(* below is one such run-to-the-next-await segment of processUrls or of    *)
(* one processUrl call, or one listener callback.  A string is a sequence  *)
(* of tokens, so that String.includes and template concatenation are       *)
(* computed and not assumed.                                               *)
(***************************************************************************)
EXTENDS Integers, Sequences, FiniteSets, TLC

VARIABLES
    config,       \* this.config (maxConcurrent, retryLimit)
    urls,         \* the argument of processUrls
    mainPc,       \* position of processUrls
    browserChunks,\* processUrls: browserChunks
    chunkIndex,   \* processUrls: chunkIndex (1-based)
    batches,      \* processUrls: batches of the current chunk
    batchIndex,   \* processUrls: i of the batch loop (1-based)
    batchTasks,   \* processUrls: batchPromises, as the ids of the calls
    results,      \* processUrls: results
    browsers,     \* one entry per puppeteer.launch() that resolved
    tasks,        \* one entry per processUrl call: its locals and position
    pageErrors,   \* this.pageErrors
    errorGroups,  \* this.errorGroups
    faults,       \* number of awaits of processUrl calls that rejected so far
    recorded,     \* number of diagnostics the listeners recorded so far
    runPc,        \* position of run()
    processedUrls,\* this.processedUrls
    history,      \* one entry per run() call: its URLs and what it cleared
    summary,      \* generateHtmlReport: summary
    options,      \* the config argument the monitor was constructed with
    emitted       \* the events the pages emit, and how many of them were listened to

vars == <<config, urls, mainPc, browserChunks, chunkIndex, batches, batchIndex,
          batchTasks, results, browsers, tasks, pageErrors, errorGroups, faults,
          recorded, runPc, processedUrls, history, summary, options, emitted>>

\* what processUrls and processUrl leave alone
runVars == <<runPc, processedUrls, history, summary, options, emitted>>

----------------------------------------------------------------------------
(* Bounds of the model *)

\* longest URL list handed to processUrls
MaxUrls == 3
\* largest run: its URLs, plus the awaits of processUrl calls that reject,
\* plus the diagnostics its listeners record
MaxRunSize == 5
\* URLs per browser session in Spec (the code's 50, scaled so that several
\* sessions occur within MaxUrls; SpecChunks uses the code's value)
RotationBound == 2
\* longest URL list of SpecChunks
MaxChunkUrls == 120
\* run() calls on one monitor in SpecRuns, the longest URL list of a run, and
\* the largest sequence of runs, counted as MaxRunSize counts one
MaxRuns == 2
MaxRunUrls == 2
MaxRunsSize == 4
\* URLs, rejected awaits and recorded events of a processUrls call whose
\* progress is checked
MaxLiveSize == 3
\* events the pages of SpecListeners emit
MaxEvents == 2

(* Program constants *)
BROWSER_ROTATION_LIMIT == 50
DefaultMaxConcurrent == 10
DefaultRetryLimit == 2
\* milliseconds of backoff per retry counted
BaseDelay == 1000

\* an optional value: None is undefined (an absent field), Some(v) is v
None == <<>>
Some(v) == <<v>>

Urls == {"u1", "u2"}

----------------------------------------------------------------------------
(* Strings *)

\* String.prototype.includes, on token sequences
Includes(s, tok) == \E i \in 1..Len(s) : s[i] = tok

Range(s) == {s[i] : i \in 1..Len(s)}

\* Array.prototype.slice(from, to) with 0-based from/to, on a 1-based sequence
Slice(s, from, to) ==
    LET hi == IF to < Len(s) THEN to ELSE Len(s)
    IN  IF from >= hi THEN <<>> ELSE [k \in 1..(hi - from) |-> s[from + k]]

\* a || b of JavaScript for an optional number: undefined and 0 are falsy
OrDefault(v, d) == IF v = None \/ v = Some(0) THEN d ELSE v[1]

----------------------------------------------------------------------------
(* Errors thrown by the browser-driving capability *)

ErrTimeout == <<"Navigation timeout of 30000 ms exceeded">>
ErrAborted == <<"net::ERR_ABORTED", " at ", "url">>
ErrFailed == <<"net::ERR_FAILED", " at ", "url">>
ErrTargetClosed == <<"Protocol error: ", "Target closed">>

\* how page.goto can fail: the message of the error, and whether the
\* crawler's own policy ended the primary document (the download denied by
\* Page.setDownloadBehavior gives net::ERR_ABORTED, the request aborted by
\* the request handler net::ERR_FAILED, which is also the browser's generic
\* network failure)
NavFailures ==
    {[message |-> ErrTimeout,      policy |-> FALSE],
     [message |-> ErrAborted,      policy |-> TRUE],
     [message |-> ErrFailed,       policy |-> TRUE],
     [message |-> ErrFailed,       policy |-> FALSE],
     [message |-> ErrTargetClosed, policy |-> FALSE]}

\* what page.goto can reject with
NavErrors == {f.message : f \in NavFailures}
\* what newPage, the CDP / interception setup and page.close can reject with
ProtocolErrors == {ErrTargetClosed}

----------------------------------------------------------------------------
(* constructor *)

\* the config objects the monitor is constructed with in this model
ConfigInputs ==
    {[maxConcurrent |-> Some(1), retryLimit |-> None],
     [maxConcurrent |-> Some(2), retryLimit |-> None]}

\* config objects that set the retry limit, to 0 and to 1
RetryLimitInputs ==
    {[maxConcurrent |-> Some(1), retryLimit |-> Some(0)],
     [maxConcurrent |-> Some(1), retryLimit |-> Some(1)]}

\* no page emits an event but those the steps of the model choose
NoEvents == [events |-> <<>>, heard |-> 0, thrown |-> FALSE]

Constructor(cfg) ==
    [maxConcurrent |-> OrDefault(cfg.maxConcurrent, DefaultMaxConcurrent),
     retryLimit    |-> OrDefault(cfg.retryLimit, DefaultRetryLimit)]

----------------------------------------------------------------------------
(* Raw browser events and the listeners of processUrl *)

\* {} as a location
EmptyObject == [url |-> None, lineNumber |-> None]

LocA == [url |-> Some(<<"/a.js">>), lineNumber |-> Some(7)]

\* console messages the page may emit
ConsoleMsgs ==
    {[type |-> "error",   text |-> <<"X failed">>, location |-> Some(LocA)],
     [type |-> "log",     text |-> <<"hello">>, location |-> Some(LocA)],
     [type |-> "error",   text |-> <<"Failed to load resource: ", "net::ERR_FAILED">>,
      location |-> Some(LocA)]}

\* uncaught exceptions the page may raise
PageErrorEvents ==
    {[message |-> <<"TypeError: x is undefined">>, stack |-> Some(<<"at f">>)]}

\* the record the console listener pushes: location is msg.location?.() || {}
ConsoleRecord(msg) ==
    [text     |-> msg.text,
     location |-> IF msg.location = None THEN Some(EmptyObject) ELSE msg.location,
     type     |-> msg.type,
     stack    |-> None]

\* PageErrorRecord with a location as console records have
PageErrorRecordLocated(e) ==
    [text |-> e.message, location |-> Some(LocA), type |-> "pageerror", stack |-> e.stack]

\* the record the pageerror listener pushes (it has no location)
PageErrorRecord(e) ==
    [text |-> e.message, location |-> None, type |-> "pageerror", stack |-> e.stack]

\* IsAbortSignal knowing net::ERR_ABORTED only
IsAbortSignalAbortedOnly(text) == Includes(text, "net::ERR_ABORTED")

IsAbortSignal(text) ==
    Includes(text, "net::ERR_FAILED") \/ Includes(text, "net::ERR_ABORTED")

\* MatchesAllowList with the first pattern only
MatchesAllowListCrossOriginOnly(text) == Includes(text, "Cross-Origin Request Blocked")

MatchesAllowList(text) ==
    Includes(text, "Cross-Origin Request Blocked") \/ Includes(text, "ReferenceError: coveoua")

\* page.on('console', ...): the errors array after the callback
ConsoleListener(errors, msg) ==
    IF IsAbortSignal(msg.text) THEN errors
    ELSE IF msg.type = "error" \/ MatchesAllowList(msg.text)
         THEN Append(errors, ConsoleRecord(msg))
         ELSE errors

\* page.on('response', ...): the errors array after the callback.  The body
\* of the if statement is a comment, and no branch pushes
ResponseListener(errors, url, response) ==
    IF /\ response.url = <<url>>
       /\ \/ Includes(response.contentType, "application/pdf")
          \/ Includes(response.contentType, "application/octet-stream")
    THEN errors
    ELSE errors

\* page.on('pageerror', ...): the errors array after the callback
PageErrorListener(errors, e) == Append(errors, PageErrorRecord(e))

----------------------------------------------------------------------------
(* Signature and aggregation *)

\* error.location?.url
LocationUrl(error) ==
    IF error.location = None THEN None ELSE error.location[1].url

\* getErrorSignature with the type of the record as a third part
getErrorSignatureWithType(error) ==
    error.text \o <<"|||">> \o
    (IF error.location = None \/ error.location[1].url \in {None, Some(<<>>)}
     THEN <<"unknown">> ELSE error.location[1].url[1]) \o <<"|||", error.type>>

\* error.location?.url || 'unknown': undefined and the empty string are falsy
LocationOrUnknown(error) ==
    IF LocationUrl(error) = None \/ LocationUrl(error) = Some(<<>>)
    THEN <<"unknown">> ELSE LocationUrl(error)[1]

getErrorSignature(error) == error.text \o <<"|||">> \o LocationOrUnknown(error)

Signatures(errors) == {getErrorSignature(errors[i]) : i \in 1..Len(errors)}

\* AddToGroup without the has() test: the group is set anew every time
AddToGroupReplacing(groups, url, error) ==
    LET signature == getErrorSignature(error)
    IN  [s \in DOMAIN groups \cup {signature} |->
            IF s = signature
            THEN [signature     |-> signature,
                  errorText     |-> error.text,
                  errorLocation |-> LocationOrUnknown(error),
                  pages         |-> {url},
                  sampleError   |-> error]
            ELSE groups[s]]

\* AddToGroup with an add that takes out a url the pages already hold
AddToGroupToggling(groups, url, error) ==
    LET signature == getErrorSignature(error)
        created ==
            IF signature \in DOMAIN groups THEN groups
            ELSE [s \in DOMAIN groups \cup {signature} |->
                    IF s = signature
                    THEN [signature     |-> signature,
                          errorText     |-> error.text,
                          errorLocation |-> LocationOrUnknown(error),
                          pages         |-> {},
                          sampleError   |-> error]
                    ELSE groups[s]]
    IN  [created EXCEPT ![signature].pages =
            IF url \in @ THEN @ \ {url} ELSE @ \cup {url}]

\* one iteration of errors.forEach: the group is created on first encounter,
\* then the url is added to its pages
AddToGroup(groups, url, error) ==
    LET signature == getErrorSignature(error)
        created ==
            IF signature \in DOMAIN groups THEN groups
            ELSE [s \in DOMAIN groups \cup {signature} |->
                    IF s = signature
                    THEN [signature     |-> signature,
                          errorText     |-> error.text,
                          errorLocation |-> LocationOrUnknown(error),
                          pages         |-> {},
                          sampleError   |-> error]
                    ELSE groups[s]]
    IN  [created EXCEPT ![signature].pages = @ \cup {url}]

RECURSIVE AddToGroups(_, _, _)
AddToGroups(groups, url, errors) ==
    IF errors = <<>> THEN groups
    ELSE AddToGroups(AddToGroup(groups, url, Head(errors)), url, Tail(errors))

\* Map.prototype.set
MapSet(map, key, value) ==
    [k \in DOMAIN map \cup {key} |-> IF k = key THEN value ELSE map[k]]

\* the three PageResults processUrl stores; ref is the identity of the errors
\* array (Some of the attempt that owns it, or None for a fresh [])
SuccessResult(url, errors, ref) ==
    [url |-> url, errorCount |-> Len(errors), errors |-> errors, success |-> TRUE,
     failureReason |-> None, ref |-> ref]

BlockedReason == <<"Resource blocked (PDF/Font)">>

BlockedResult(url) ==
    [url |-> url, errorCount |-> 0, errors |-> <<>>, success |-> TRUE,
     failureReason |-> Some(BlockedReason), ref |-> None]

\* FailureResult without the reason
FailureResultNoReason(url, message) ==
    [url |-> url, errorCount |-> 0, errors |-> <<>>, success |-> FALSE,
     failureReason |-> None, ref |-> None]

FailureResult(url, message) ==
    [url |-> url, errorCount |-> 0, errors |-> <<>>, success |-> FALSE,
     failureReason |-> Some(message), ref |-> None]

\* IsPolicyAbort testing for one of the two signals only
IsPolicyAbortFailedOnly(message) == Includes(message, "net::ERR_FAILED")

\* IsPolicyAbort taking a navigation timeout for a blocked document as well
IsPolicyAbortOrTimeout(message) ==
    \/ Includes(message, "net::ERR_ABORTED") \/ Includes(message, "net::ERR_FAILED")
    \/ Includes(message, "Navigation timeout of 30000 ms exceeded")

\* line 173: the error is taken for the crawler's own blocking of the document
IsPolicyAbort(message) ==
    Includes(message, "net::ERR_ABORTED") \/ Includes(message, "net::ERR_FAILED")

\* RetriesExhausted one retry too late, and one too early
RetriesExhaustedLate(retries, retryLimit) == retries > retryLimit + 1

RetriesExhaustedEarly(retries, retryLimit) == retries >= retryLimit

\* RetriesExhausted never giving up
RetriesExhaustedNever(retries, limit) == FALSE

\* line 185, after ++retries
RetriesExhausted(retries, retryLimit) == retries > retryLimit

\* LoopContinues with < in the place of <=
LoopContinuesStrict(retries, retryLimit) == retries < retryLimit

\* BackoffDelay not growing with the retries
BackoffDelayFixed(retries) == BaseDelay

\* line 199: the milliseconds waited before the next attempt
BackoffDelay(retries) == BaseDelay * retries

\* line 62
LoopContinues(retries, retryLimit) == retries <= retryLimit

----------------------------------------------------------------------------
(* Session chunks and batches *)

RECURSIVE SplitFrom(_, _, _)
SplitFrom(list, i, size) ==
    IF i < Len(list)
    THEN <<Slice(list, i, i + size)>> \o SplitFrom(list, i + size, size)
    ELSE <<>>

\* BrowserChunks and Batches slicing one element too many
BrowserChunksTooLong(list, limit) == SplitFrom(list, 0, limit + 1)

BatchesTooWide(chunk, maxConcurrent) == SplitFrom(chunk, 0, maxConcurrent + 1)

\* BrowserChunks making one (empty) chunk of the empty list
BrowserChunksNeverEmpty(list, limit) ==
    IF list = <<>> THEN <<list>> ELSE SplitFrom(list, 0, limit)

\* lines 208-211
BrowserChunks(list, limit) == SplitFrom(list, 0, limit)

\* lines 232-235
Batches(chunk, maxConcurrent) == SplitFrom(chunk, 0, maxConcurrent)

----------------------------------------------------------------------------
(* State *)

RECURSIVE SeqsUpTo(_, _)
SeqsUpTo(S, n) ==
    IF n = 0 THEN {<<>>}
    ELSE LET shorter == SeqsUpTo(S, n - 1)
         IN  shorter \cup {Append(q, x) : q \in shorter, x \in S}

\* the URL lists processUrls is called with
UrlLists == {q \in SeqsUpTo(Urls, MaxUrls) : q = <<>> \/ q[1] = "u1"}

EmptyMap == [k \in {} |-> None]

\* Broken: value of navFails once an attempt ended otherwise than in a
\* retryable navigation failure
Broken == -1

NavRetryable == NavErrors \ {ErrAborted, ErrFailed}

\* the locals of a processUrl call at its first await (browser.newPage())
NewTask(url, session) ==
    [url      |-> url,
     browser  |-> session,     \* index in browsers of the browser argument
     pc       |-> "newPage",
     retries  |-> 0,
     page     |-> "undefined", \* "undefined", "open", or "closeCalled"
     unclosed |-> 0,           \* pages acquired on which close() was not invoked
     errors   |-> <<>>,
     error    |-> None,        \* the caught error
     added    |-> {},          \* signatures whose group this attempt added url to
     navFails |-> 0,           \* navigation attempts so far, all failed retryably
     policy   |-> FALSE,       \* the caught error is of the crawler's own abort
     delay    |-> 0,           \* the backoff delay the call last waited for
     overtook |-> FALSE,       \* settled before a call started earlier in its batch
     ret      |-> None]        \* the value the call resolved to

\* a settled call whose result processUrls has taken: its locals are gone
Collected(task) ==
    [task EXCEPT !.pc = "collected", !.retries = 0, !.page = "undefined",
                 !.navFails = Broken, !.ret = None, !.delay = 0]

RECURSIVE TotalUrls(_)
TotalUrls(h) == IF h = <<>> THEN 0 ELSE Len(Head(h).urls) + TotalUrls(Tail(h))

\* the URLs handed to processUrls so far, the awaits that rejected and the
\* diagnostics recorded
RunSize == (IF history = <<>> THEN Len(urls) ELSE TotalUrls(history)) + faults + recorded

SizeBound == IF history = <<>> THEN MaxRunSize ELSE MaxRunsSize

Outstanding == {t \in 1..Len(tasks) : tasks[t].pc \notin {"done", "collected"}}

Init ==
    /\ options \in ConfigInputs \cup RetryLimitInputs
    /\ config = Constructor(options)
    /\ emitted = NoEvents
    /\ urls \in UrlLists
    /\ mainPc = "ready"
    /\ browserChunks = <<>>
    /\ chunkIndex = 0
    /\ batches = <<>>
    /\ batchIndex = 0
    /\ batchTasks = {}
    /\ results = <<>>
    /\ browsers = <<>>
    /\ tasks = <<>>
    /\ pageErrors = EmptyMap
    /\ errorGroups = EmptyMap
    /\ faults = 0
    /\ recorded = 0
    /\ runPc = "idle"
    /\ processedUrls = {}
    /\ history = <<>>
    /\ summary = None

----------------------------------------------------------------------------
(* processUrls *)

\* StartBatch handing every call the browser of the first session
StartBatchFirstBrowser(batch, browser) ==
    /\ tasks' = tasks \o [k \in 1..Len(batch) |-> NewTask(batch[k], 1)]
    /\ batchTasks' = (Len(tasks) + 1)..(Len(tasks) + Len(batch))

\* batches[i].map(url => this.processUrl(browser, url)): every call runs to
\* its first await
StartBatch(batch, browser) ==
    /\ tasks' = tasks \o [k \in 1..Len(batch) |-> NewTask(batch[k], browser)]
    /\ batchTasks' = (Len(tasks) + 1)..(Len(tasks) + Len(batch))

\* lines 204-219 for the argument list: the chunks are built and the first
\* browser launch is awaited; no browser and no processUrl call of this
\* processUrls call exists yet
ProcessUrlsBegins(list) ==
    /\ browserChunks' = BrowserChunks(list, RotationBound)
    /\ results' = <<>>
    /\ browsers' = <<>>
    /\ tasks' = <<>>
    /\ IF browserChunks' = <<>>
       THEN mainPc' = "returned" /\ chunkIndex' = 0
       ELSE mainPc' = "launching" /\ chunkIndex' = 1
    /\ UNCHANGED <<config, batches, batchIndex, batchTasks, faults, recorded>>

\* processUrls(urls) called on its own
ProcessUrlsCall ==
    /\ mainPc = "ready"
    /\ ProcessUrlsBegins(urls)
    /\ UNCHANGED <<urls, pageErrors, errorGroups>>
    /\ UNCHANGED runVars

\* lines 219-244: the launch resolved; the batches are built and batch 0 starts
LaunchResolves ==
    /\ mainPc = "launching"
    /\ browsers' = Append(browsers, [state |-> "open", threw |-> FALSE])
    /\ batches' = Batches(browserChunks[chunkIndex], config.maxConcurrent)
    /\ batchIndex' = 1
    /\ StartBatch(batches'[1], Len(browsers'))
    /\ mainPc' = "awaitBatch"
    /\ UNCHANGED <<config, urls, browserChunks, chunkIndex, results, pageErrors,
                   errorGroups, faults, recorded>>
    /\ UNCHANGED runVars

\* line 219: the launch rejected; it is outside the try, processUrls rejects
LaunchRejects ==
    /\ mainPc = "launching"
    /\ mainPc' = "rejected"
    /\ UNCHANGED <<config, urls, browserChunks, chunkIndex, batches, batchIndex,
                   batchTasks, results, browsers, tasks, pageErrors, errorGroups,
                   faults, recorded>>
    /\ UNCHANGED runVars

\* BatchResults in the reverse of the order of the batch
BatchResultsReversed(ids) ==
    LET hi == CHOOSE t \in ids : \A u \in ids : t >= u
    IN  [k \in 1..Cardinality(ids) |-> tasks[hi - k + 1].ret]

\* r.value || r.reason of the settled promises, in the order of the batch
BatchResults(ids) ==
    LET lo == CHOOSE t \in ids : \A u \in ids : t <= u
    IN  [k \in 1..Cardinality(ids) |-> tasks[lo + k - 1].ret]

\* AllSettled resolving as soon as one promise has settled
AnySettled(ids) == \E t \in ids : tasks[t].pc = "done"

\* line 244: Promise.allSettled(batchPromises) resolves once every call of the
\* batch has settled
AllSettled(ids) == \A t \in ids : tasks[t].pc = "done"

\* AfterBrowserClose closing the browser of the session before this one
BrowserClosedLate(bs, i) == IF i > 1 THEN [bs EXCEPT ![i - 1].state = "closed"] ELSE bs

\* AfterBrowserClose with browser.close() left out
BrowserLeftOpen(bs, i) == bs

\* browser.close() is invoked in the finally block
AfterBrowserClose(bs, i) == [bs EXCEPT ![i].state = "closed"]

\* CooldownDue with the cooldown left out after every batch
CooldownNever(i, n) == FALSE

\* line 247: i < batches.length - 1, for the batch index counted from 1
CooldownDue(i, n) == i < n

\* lines 244-254: Promise.allSettled resolved; the results are appended, then
\* the cooldown is awaited, or after the last batch browser.close()
BatchSettled ==
    /\ mainPc = "awaitBatch"
    /\ AllSettled(batchTasks)
    /\ results' = results \o BatchResults(batchTasks)
    /\ tasks' = [t \in 1..Len(tasks) |->
                    IF t \in batchTasks THEN Collected(tasks[t]) ELSE tasks[t]]
    /\ batchTasks' = {}
    /\ mainPc' = IF CooldownDue(batchIndex, Len(batches)) THEN "cooldown" ELSE "closing"
    /\ UNCHANGED <<config, urls, browserChunks, chunkIndex, batches, batchIndex,
                   browsers, pageErrors, errorGroups, faults, recorded>>
    /\ UNCHANGED runVars

\* lines 251-254: the try block threw after a batch settled; the error is
\* logged, the rest of the chunk is skipped and browser.close() is awaited
SessionThrows ==
    /\ mainPc = "awaitBatch"
    /\ AllSettled(batchTasks)
    /\ tasks' = [t \in 1..Len(tasks) |->
                    IF t \in batchTasks THEN Collected(tasks[t]) ELSE tasks[t]]
    /\ batchTasks' = {}
    /\ browsers' = [browsers EXCEPT ![chunkIndex].threw = TRUE]
    /\ mainPc' = "closing"
    /\ UNCHANGED <<config, urls, browserChunks, chunkIndex, batches, batchIndex,
                   results, pageErrors, errorGroups, faults, recorded>>
    /\ UNCHANGED runVars

\* lines 247-249 and 240-244: the cooldown elapsed; the next batch starts
CooldownElapsed ==
    /\ mainPc = "cooldown"
    /\ batchIndex' = batchIndex + 1
    /\ StartBatch(batches[batchIndex'], Len(browsers))
    /\ mainPc' = "awaitBatch"
    /\ UNCHANGED <<config, urls, browserChunks, chunkIndex, batches, results,
                   browsers, pageErrors, errorGroups, faults, recorded>>
    /\ UNCHANGED runVars

\* lines 254-259 and 215-219: browser.close() resolved; the next session's
\* launch is awaited, or processUrls returns results
BrowserCloseResolves ==
    /\ mainPc = "closing"
    /\ browsers' = AfterBrowserClose(browsers, chunkIndex)
    /\ IF chunkIndex < Len(browserChunks)
       THEN mainPc' = "launching" /\ chunkIndex' = chunkIndex + 1
       ELSE mainPc' = "returned" /\ chunkIndex' = chunkIndex
    /\ UNCHANGED <<config, urls, browserChunks, batches, batchIndex, batchTasks,
                   results, tasks, pageErrors, errorGroups, faults, recorded>>
    /\ UNCHANGED runVars

\* line 254: browser.close() rejected inside finally; processUrls rejects
BrowserCloseRejects ==
    /\ mainPc = "closing"
    /\ mainPc' = "rejected"
    /\ UNCHANGED <<config, urls, browserChunks, chunkIndex, batches, batchIndex,
                   batchTasks, results, browsers, tasks, pageErrors, errorGroups,
                   faults, recorded>>
    /\ UNCHANGED runVars

----------------------------------------------------------------------------
(* processUrl *)

taskVars == <<config, urls, mainPc, browserChunks, chunkIndex, batches, batchIndex,
              batchTasks, results, browsers, runPc, processedUrls, history, summary,
              options, emitted>>

\* SetTask with retries held in one variable that all calls share
SetTaskSharedRetries(t, task) ==
    tasks' = [u \in 1..Len(tasks) |->
                 IF u = t THEN task
                 ELSE IF u \in Outstanding THEN [tasks[u] EXCEPT !.retries = task.retries]
                 ELSE tasks[u]]

\* page, retries and errors are locals of the call: a step of call t
\* assigns the locals of call t only
SetTask(t, task) == tasks' = [tasks EXCEPT ![t] = task]

\* page.close() is invoked on the page the variable page holds
ClosePage(task) ==
    IF task.page = "open"
    THEN [task EXCEPT !.page = "closeCalled", !.unclosed = @ - 1]
    ELSE task

\* CatchClose with the close left out
CatchCloseSkipped(task) == task

\* line 169: if (page) await page.close().catch(() => {})
CatchClose(task) == IF task.page = "undefined" THEN task ELSE ClosePage(task)

\* the call returns value: the locals are gone
Return(t, task, value) ==
    [task EXCEPT !.pc = "done", !.ret = value, !.errors = <<>>, !.error = None,
                 !.added = {}, !.policy = FALSE,
                 !.overtook = \E u \in batchTasks : u < t /\ tasks[u].pc # "done"]

\* lines 171-199: the catch block after the page was closed.  It stores a
\* result and returns, or counts a retry and awaits the backoff delay
HandleError(t, task, error) ==
    IF IsPolicyAbort(error)
    THEN /\ pageErrors' = MapSet(pageErrors, task.url, BlockedResult(task.url))
         /\ SetTask(t, Return(t, task, Some([url |-> task.url, success |-> TRUE, errorCount |-> 0])))
    ELSE IF RetriesExhausted(task.retries + 1, config.retryLimit)
    THEN /\ pageErrors' = MapSet(pageErrors, task.url, FailureResult(task.url, error))
         /\ SetTask(t, Return(t, [task EXCEPT !.retries = @ + 1],
                              Some([url |-> task.url, success |-> FALSE, error |-> error])))
    ELSE /\ pageErrors' = pageErrors
         /\ SetTask(t, [task EXCEPT !.retries = @ + 1, !.pc = "backoff",
                                    !.delay = BackoffDelay(task.retries + 1),
                                    !.error = None, !.policy = FALSE])

\* the try block is left: its errors array is out of scope
LeaveTry(task) == [task EXCEPT !.errors = <<>>, !.added = {}]

\* lines 168-169: an await of the try block rejected with error.  With a
\* page, its close() is awaited; without one the catch block runs on
EnterCatch(t, task, error) ==
    /\ RunSize < SizeBound
    /\ faults' = faults + 1
    /\ recorded' = recorded
    /\ errorGroups' = errorGroups
    /\ IF task.page = "undefined"
       THEN HandleError(t, LeaveTry(task), error)
       ELSE /\ SetTask(t, [CatchClose(LeaveTry(task)) EXCEPT !.pc = "catchClose",
                                                             !.error = Some(error)])
            /\ pageErrors' = pageErrors

NavFailsAfter(task, error) ==
    IF task.navFails # Broken /\ error \in NavRetryable THEN task.navFails + 1 ELSE Broken

\* line 64: browser.newPage() rejected
NewPageRejects(t, error) ==
    /\ tasks[t].pc = "newPage"
    /\ EnterCatch(t, [tasks[t] EXCEPT !.navFails = Broken], error)
    /\ UNCHANGED taskVars

\* lines 64-73: the page was acquired, then the CDP session, the download
\* behaviour or the request interception rejected
SetupRejects(t, error) ==
    /\ tasks[t].pc = "newPage"
    /\ EnterCatch(t, [tasks[t] EXCEPT !.page = "open", !.unclosed = @ + 1,
                                      !.navFails = Broken], error)
    /\ UNCHANGED taskVars

\* lines 64-139: the page was acquired and set up, the listeners are
\* installed on an empty errors array and page.goto is awaited
PageReady(t) ==
    /\ tasks[t].pc = "newPage"
    /\ SetTask(t, [tasks[t] EXCEPT !.page = "open", !.unclosed = @ + 1,
                                   !.errors = <<>>, !.pc = "goto"])
    /\ UNCHANGED <<pageErrors, errorGroups, faults, recorded>>
    /\ UNCHANGED taskVars

\* the array that pageErrors holds for url is the attempt's own errors array
Aliased(t) ==
    /\ tasks[t].url \in DOMAIN pageErrors
    /\ pageErrors[tasks[t].url].ref = Some(<<t, tasks[t].retries>>)

\* a listener ran on the attempt's errors array
Pushed(t, errors) ==
    /\ recorded' = recorded + (Len(errors) - Len(tasks[t].errors))
    /\ RunSize + (recorded' - recorded) <= SizeBound
    /\ SetTask(t, [tasks[t] EXCEPT !.errors = errors])
    /\ pageErrors' = IF Aliased(t)
                     THEN [pageErrors EXCEPT ![tasks[t].url].errors = errors]
                     ELSE pageErrors
    /\ UNCHANGED <<errorGroups, faults>>

Push(t, errors) ==
    /\ Pushed(t, errors)
    /\ UNCHANGED taskVars

\* lines 105-125: a console message arrives while the page is open
ConsoleEvent(t, msg) ==
    /\ tasks[t].pc \in {"goto", "settle", "closing"}
    /\ Push(t, ConsoleListener(tasks[t].errors, msg))

\* lines 127-134: an uncaught exception arrives while the page is open
PageErrorEvent(t, e) ==
    /\ tasks[t].pc \in {"goto", "settle", "closing"}
    /\ Push(t, PageErrorListener(tasks[t].errors, e))

\* line 139: page.goto rejected
GotoRejects(t, failure) ==
    /\ tasks[t].pc = "goto"
    /\ EnterCatch(t, [tasks[t] EXCEPT !.navFails = NavFailsAfter(tasks[t], failure.message),
                                      !.policy = failure.policy],
                  failure.message)
    /\ UNCHANGED taskVars

\* lines 139-142: page.goto resolved, the settle delay is awaited
GotoResolves(t) ==
    /\ tasks[t].pc = "goto"
    /\ SetTask(t, [tasks[t] EXCEPT !.pc = "settle", !.navFails = Broken])
    /\ UNCHANGED <<pageErrors, errorGroups, faults, recorded>>
    /\ UNCHANGED taskVars

\* lines 144-166: the settle delay elapsed; the result is stored, the url is
\* added to the group of every diagnostic and page.close() is awaited
SettleElapsed(t) ==
    LET task == tasks[t] IN
    /\ task.pc = "settle"
    /\ pageErrors' = MapSet(pageErrors, task.url,
                            SuccessResult(task.url, task.errors, Some(<<t, task.retries>>)))
    /\ errorGroups' = AddToGroups(errorGroups, task.url, task.errors)
    /\ SetTask(t, [ClosePage(task) EXCEPT !.pc = "closing",
                                          !.added = Signatures(task.errors)])
    /\ UNCHANGED <<faults, recorded>>
    /\ UNCHANGED taskVars

\* lines 166-167: page.close() resolved; the call returns the success value
PageCloseResolves(t) ==
    LET task == tasks[t] IN
    /\ task.pc = "closing"
    /\ SetTask(t, Return(t, task, Some([url |-> task.url, success |-> TRUE,
                                     errorCount |-> Len(task.errors)])))
    /\ UNCHANGED <<pageErrors, errorGroups, faults, recorded>>
    /\ UNCHANGED taskVars

\* line 166: page.close() rejected inside the try block
PageCloseRejects(t, error) ==
    /\ tasks[t].pc = "closing"
    /\ EnterCatch(t, tasks[t], error)
    /\ UNCHANGED taskVars

\* line 169: the close() awaited in the catch block settled (a rejection is
\* swallowed); the catch block runs on
CatchCloseSettles(t) ==
    /\ tasks[t].pc = "catchClose"
    /\ HandleError(t, tasks[t], tasks[t].error[1])
    /\ UNCHANGED <<errorGroups, faults, recorded>>
    /\ UNCHANGED taskVars

\* lines 199 and 62-64: the backoff delay elapsed; the loop condition is
\* tested and the next attempt awaits browser.newPage()
BackoffElapsed(t) ==
    /\ tasks[t].pc = "backoff"
    /\ IF LoopContinues(tasks[t].retries, config.retryLimit)
       THEN SetTask(t, [tasks[t] EXCEPT !.pc = "newPage"])
       ELSE SetTask(t, Return(t, tasks[t], None))
    /\ UNCHANGED <<pageErrors, errorGroups, faults, recorded>>
    /\ UNCHANGED taskVars

----------------------------------------------------------------------------
Next ==
    \/ ProcessUrlsCall
    \/ LaunchResolves
    \/ LaunchRejects
    \/ BatchSettled
    \/ SessionThrows
    \/ CooldownElapsed
    \/ BrowserCloseResolves
    \/ BrowserCloseRejects
    \/ \E t \in Outstanding, error \in ProtocolErrors : NewPageRejects(t, error)
    \/ \E t \in Outstanding, error \in ProtocolErrors : SetupRejects(t, error)
    \/ \E t \in Outstanding : PageReady(t)
    \/ \E t \in Outstanding, msg \in ConsoleMsgs : ConsoleEvent(t, msg)
    \/ \E t \in Outstanding, e \in PageErrorEvents : PageErrorEvent(t, e)
    \/ \E t \in Outstanding, failure \in NavFailures : GotoRejects(t, failure)
    \/ \E t \in Outstanding : GotoResolves(t)
    \/ \E t \in Outstanding : SettleElapsed(t)
    \/ \E t \in Outstanding : PageCloseResolves(t)
    \/ \E t \in Outstanding, error \in ProtocolErrors : PageCloseRejects(t, error)
    \/ \E t \in Outstanding : CatchCloseSettles(t)
    \/ \E t \in Outstanding : BackoffElapsed(t)

Spec == Init /\ [][Next]_vars

----------------------------------------------------------------------------
(* run(): the monitor is cleared, the URLs are generated and processed, and
   the reports are written.  A run is called when no other run is under way *)

processVars == <<options, emitted, config, browserChunks, chunkIndex, batches, batchIndex, batchTasks,
                 results, browsers, tasks, faults, recorded>>

\* Cleared that leaves the map as it is
NotCleared(map) == map

\* Map.prototype.clear
Cleared(map) == EmptyMap

\* lines 793-800: the three collections are cleared and generateUrls() is
\* awaited
RunCall ==
    /\ runPc \in {"idle", "rejected"}
    /\ mainPc = "idle"
    /\ Len(history) < MaxRuns
    /\ history' = Append(history, [urls    |-> <<>>,
                                   cleared |-> [pages  |-> DOMAIN pageErrors,
                                                groups |-> DOMAIN errorGroups]])
    /\ pageErrors' = Cleared(pageErrors)
    /\ processedUrls' = {}
    /\ errorGroups' = Cleared(errorGroups)
    /\ summary' = None
    /\ runPc' = "generateUrls"
    /\ UNCHANGED <<urls, mainPc>>
    /\ UNCHANGED processVars

\* lines 800-803 and 204-219: generateUrls() resolved (with [] when the
\* workbook cannot be read); the URLs are added to processedUrls and
\* processUrls is called and awaited
UrlsGenerated ==
    /\ runPc = "generateUrls"
    /\ \E list \in UrlLists :
           /\ Len(list) <= MaxRunUrls
           /\ RunSize + Len(list) <= SizeBound
           /\ urls' = list
           /\ processedUrls' = processedUrls \cup Range(list)
           /\ history' = [history EXCEPT ![Len(history)].urls = list]
           /\ ProcessUrlsBegins(list)
    /\ runPc' = "processUrls"
    /\ UNCHANGED <<pageErrors, errorGroups, summary, options, emitted>>

\* lines 803-805: processUrls returned; fs.mkdir is awaited
ProcessUrlsReturned ==
    /\ runPc = "processUrls"
    /\ mainPc = "returned"
    /\ mainPc' = "idle"
    /\ runPc' = "mkdir"
    /\ UNCHANGED <<urls, pageErrors, errorGroups, processedUrls, history, summary>>
    /\ UNCHANGED processVars

\* line 803: processUrls rejected, and run() with it
ProcessUrlsRejected ==
    /\ runPc = "processUrls"
    /\ mainPc = "rejected"
    /\ mainPc' = "idle"
    /\ runPc' = "rejected"
    /\ UNCHANGED <<urls, pageErrors, errorGroups, processedUrls, history, summary>>
    /\ UNCHANGED processVars

RECURSIVE SumErrorCounts(_)
SumErrorCounts(pages) ==
    IF pages = {} THEN 0
    ELSE LET u == CHOOSE v \in pages : TRUE
         IN  pageErrors[u].errorCount + SumErrorCounts(pages \ {u})

\* lines 265-272: status of a page in sortedPages
Status(data) ==
    IF ~data.success THEN "failed" ELSE IF data.errorCount > 0 THEN "error" ELSE "success"

\* lines 324-330: the summary of generateHtmlReport
Summary ==
    [total        |-> Cardinality(processedUrls),
     withErrors   |-> Cardinality({u \in DOMAIN pageErrors : pageErrors[u].errorCount > 0}),
     failed       |-> Cardinality({u \in DOMAIN pageErrors : Status(pageErrors[u]) = "failed"}),
     totalErrors  |-> SumErrorCounts(DOMAIN pageErrors),
     uniqueErrors |-> Cardinality(DOMAIN errorGroups)]

runFrame == <<urls, mainPc, pageErrors, errorGroups, processedUrls, history>>

\* lines 805-809 and 262-791: fs.mkdir resolved; generateHtmlReport runs, and
\* its promise is awaited
MkdirResolves ==
    /\ runPc = "mkdir"
    /\ summary' = Some(Summary)
    /\ runPc' = "htmlReport"
    /\ UNCHANGED runFrame
    /\ UNCHANGED processVars

\* lines 809-811: the report is there; fs.writeFile(htmlPath) is awaited
HtmlReportResolves ==
    /\ runPc = "htmlReport"
    /\ runPc' = "writeHtml"
    /\ UNCHANGED <<runFrame, summary>>
    /\ UNCHANGED processVars

\* lines 811-814: fs.writeFile(latestHtmlPath) is awaited
WriteHtmlResolves ==
    /\ runPc = "writeHtml"
    /\ runPc' = "writeLatest"
    /\ UNCHANGED <<runFrame, summary>>
    /\ UNCHANGED processVars

\* lines 814-816: the latest report is written; this.generateJsonReport is
\* not a method of this class, the call throws a TypeError and run() rejects
WriteLatestResolves ==
    /\ runPc = "writeLatest"
    /\ runPc' = "rejected"
    /\ UNCHANGED <<runFrame, summary>>
    /\ UNCHANGED processVars

\* lines 805-814: fs.mkdir or fs.writeFile rejected, and run() with it
FsRejects ==
    /\ runPc \in {"mkdir", "writeHtml", "writeLatest"}
    /\ runPc' = "rejected"
    /\ UNCHANGED <<runFrame, summary>>
    /\ UNCHANGED processVars

InitRuns ==
    /\ options \in ConfigInputs
    /\ config = Constructor(options)
    /\ emitted = NoEvents
    /\ urls = <<>>
    /\ mainPc = "idle"
    /\ browserChunks = <<>>
    /\ chunkIndex = 0
    /\ batches = <<>>
    /\ batchIndex = 0
    /\ batchTasks = {}
    /\ results = <<>>
    /\ browsers = <<>>
    /\ tasks = <<>>
    /\ pageErrors = EmptyMap
    /\ errorGroups = EmptyMap
    /\ faults = 0
    /\ recorded = 0
    /\ runPc = "idle"
    /\ processedUrls = {}
    /\ history = <<>>
    /\ summary = None

NextRuns ==
    \/ RunCall
    \/ UrlsGenerated
    \/ ProcessUrlsReturned
    \/ ProcessUrlsRejected
    \/ MkdirResolves
    \/ HtmlReportResolves
    \/ WriteHtmlResolves
    \/ WriteLatestResolves
    \/ FsRejects
    \/ LaunchResolves
    \/ LaunchRejects
    \/ BatchSettled
    \/ SessionThrows
    \/ CooldownElapsed
    \/ BrowserCloseResolves
    \/ BrowserCloseRejects
    \/ \E t \in Outstanding, error \in ProtocolErrors : NewPageRejects(t, error)
    \/ \E t \in Outstanding, error \in ProtocolErrors : SetupRejects(t, error)
    \/ \E t \in Outstanding : PageReady(t)
    \/ \E t \in Outstanding, msg \in ConsoleMsgs : ConsoleEvent(t, msg)
    \/ \E t \in Outstanding, e \in PageErrorEvents : PageErrorEvent(t, e)
    \/ \E t \in Outstanding, failure \in NavFailures : GotoRejects(t, failure)
    \/ \E t \in Outstanding : GotoResolves(t)
    \/ \E t \in Outstanding : SettleElapsed(t)
    \/ \E t \in Outstanding : PageCloseResolves(t)
    \/ \E t \in Outstanding, error \in ProtocolErrors : PageCloseRejects(t, error)
    \/ \E t \in Outstanding : CatchCloseSettles(t)
    \/ \E t \in Outstanding : BackoffElapsed(t)

SpecRuns == InitRuns /\ [][NextRuns]_vars

\* lines 848 and 793-800: the cron callback of scheduleRuns calls run() with
\* nothing that holds it back while the run before awaits processUrls or the
\* file system: the new run clears the three collections and awaits
\* generateUrls().  The steps of the new run after that are left out here
RunCallOverlaps ==
    /\ runPc \in {"processUrls", "mkdir", "htmlReport", "writeHtml", "writeLatest"}
    /\ Len(history) < MaxRuns
    /\ history' = Append(history, [urls    |-> <<>>,
                                   cleared |-> [pages  |-> DOMAIN pageErrors,
                                                groups |-> DOMAIN errorGroups]])
    /\ pageErrors' = Cleared(pageErrors)
    /\ processedUrls' = {}
    /\ errorGroups' = Cleared(errorGroups)
    /\ UNCHANGED <<urls, mainPc, runPc, summary>>
    /\ UNCHANGED processVars

NextSchedule ==
    \/ RunCallOverlaps
    \/ history = <<>> /\ RunCall
    \/ UrlsGenerated
    \/ ProcessUrlsReturned
    \/ ProcessUrlsRejected
    \/ MkdirResolves
    \/ HtmlReportResolves
    \/ WriteHtmlResolves
    \/ WriteLatestResolves
    \/ FsRejects
    \/ LaunchResolves
    \/ LaunchRejects
    \/ BatchSettled
    \/ SessionThrows
    \/ CooldownElapsed
    \/ BrowserCloseResolves
    \/ BrowserCloseRejects
    \/ \E t \in Outstanding, error \in ProtocolErrors : NewPageRejects(t, error)
    \/ \E t \in Outstanding, error \in ProtocolErrors : SetupRejects(t, error)
    \/ \E t \in Outstanding : PageReady(t)
    \/ \E t \in Outstanding, msg \in ConsoleMsgs : ConsoleEvent(t, msg)
    \/ \E t \in Outstanding, e \in PageErrorEvents : PageErrorEvent(t, e)
    \/ \E t \in Outstanding, failure \in NavFailures : GotoRejects(t, failure)
    \/ \E t \in Outstanding : GotoResolves(t)
    \/ \E t \in Outstanding : SettleElapsed(t)
    \/ \E t \in Outstanding : PageCloseResolves(t)
    \/ \E t \in Outstanding, error \in ProtocolErrors : PageCloseRejects(t, error)
    \/ \E t \in Outstanding : CatchCloseSettles(t)
    \/ \E t \in Outstanding : BackoffElapsed(t)

\* run() called once and then by the cron callback of scheduleRuns while
\* that run is under way
SpecSchedule == InitRuns /\ [][NextSchedule]_vars

----------------------------------------------------------------------------
(* The session chunks of processUrls alone, with the rotation limit of the
   code and URL lists longer than two sessions *)

\* the list of n URLs
UrlListOf(n) == [i \in 1..n |-> IF i % 2 = 1 THEN "u1" ELSE "u2"]

InitChunks ==
    /\ options = [maxConcurrent |-> None, retryLimit |-> None]
    /\ config = Constructor(options)
    /\ emitted = NoEvents
    /\ urls \in {UrlListOf(n) : n \in 0..MaxChunkUrls}
    /\ mainPc = "ready"
    /\ browserChunks = <<>>
    /\ chunkIndex = 0
    /\ batches = <<>>
    /\ batchIndex = 0
    /\ batchTasks = {}
    /\ results = <<>>
    /\ browsers = <<>>
    /\ tasks = <<>>
    /\ pageErrors = EmptyMap
    /\ errorGroups = EmptyMap
    /\ faults = 0
    /\ recorded = 0
    /\ runPc = "idle"
    /\ processedUrls = {}
    /\ history = <<>>
    /\ summary = None

\* lines 204-213: the chunks are built
SplitIntoSessions ==
    /\ mainPc = "ready"
    /\ browserChunks' = BrowserChunks(urls, BROWSER_ROTATION_LIMIT)
    /\ results' = <<>>
    /\ mainPc' = "split"
    /\ UNCHANGED <<config, urls, chunkIndex, batches, batchIndex, batchTasks, browsers,
                   tasks, pageErrors, errorGroups, faults, recorded>>
    /\ UNCHANGED runVars

NextChunks == SplitIntoSessions

\* processUrls on Node's event loop: a settled promise's continuation, an
\* elapsed timer and an emitted event are run, so the call does not stand
\* still while a step of it can be taken
LiveBudget == RunSize <= MaxLiveSize

InitLive == Init /\ LiveBudget

NextLive == Next /\ LiveBudget'

SpecLive == InitLive /\ [][NextLive]_vars /\ WF_vars(NextLive)

SpecChunks == InitChunks /\ [][NextChunks]_vars

----------------------------------------------------------------------------
(* The aggregation step of processUrl alone, on the records the listeners
   make of arbitrary console messages and uncaught exceptions *)

\* texts of console messages and messages of uncaught exceptions; "|||" is
\* the three characters the signature is joined with
SigTexts == {<<"a">>, <<"a", "|||", "b">>}

\* what msg.location is: absent, or a function returning {}, an object with
\* an empty url, or an object with a url and a line
SigLocations ==
    {None, Some(EmptyObject), Some([url |-> Some(<<>>), lineNumber |-> None])}
    \cup {Some([url |-> Some(u), lineNumber |-> Some(n)]) :
             u \in {<<"b">>, <<"unknown">>}, n \in {1, 2}}
    \cup {Some([url |-> Some(<<"b", "|||", "b">>), lineNumber |-> Some(1)])}

SigMsgs == {[type |-> "error", text |-> x, location |-> l] : x \in SigTexts, l \in SigLocations}

SigPageErrors == {[message |-> x, stack |-> Some(<<"at f">>)] : x \in SigTexts}

\* the errors arrays the listeners build from two events
SigErrorArrays ==
    {ConsoleListener(ConsoleListener(<<>>, m1), m2) : m1 \in SigMsgs, m2 \in SigMsgs}
    \cup {PageErrorListener(ConsoleListener(<<>>, m), e) : m \in SigMsgs, e \in SigPageErrors}
    \cup {ConsoleListener(PageErrorListener(<<>>, e), m) : m \in SigMsgs, e \in SigPageErrors}
    \cup {PageErrorListener(PageErrorListener(<<>>, e1), e2) :
             e1 \in SigPageErrors, e2 \in SigPageErrors}

\* the first attempt of processUrl for "u1" at the end of its settle delay
InitSignature ==
    /\ options = [maxConcurrent |-> None, retryLimit |-> None]
    /\ config = Constructor(options)
    /\ emitted = NoEvents
    /\ urls = <<"u1">>
    /\ mainPc = "awaitBatch"
    /\ browserChunks = <<urls>>
    /\ chunkIndex = 1
    /\ batches = <<urls>>
    /\ batchIndex = 1
    /\ batchTasks = {1}
    /\ results = <<>>
    /\ browsers = <<[state |-> "open", threw |-> FALSE]>>
    /\ \E errors \in SigErrorArrays :
           tasks = <<[NewTask("u1", 1) EXCEPT !.pc = "settle", !.page = "open",
                                             !.unclosed = 1, !.navFails = Broken,
                                             !.errors = errors]>>
    /\ pageErrors = EmptyMap
    /\ errorGroups = EmptyMap
    /\ faults = 0
    /\ recorded = 2
    /\ runPc = "idle"
    /\ processedUrls = {}
    /\ history = <<>>
    /\ summary = None

NextSignature == SettleElapsed(1)

SpecSignature == InitSignature /\ [][NextSignature]_vars

----------------------------------------------------------------------------
(* The listeners of processUrl on the events that two pages of one batch
   emit: the events queue up in the order the pages emitted them and the
   listeners run on them one at a time, between the steps of the two calls *)

CrossOrigin == <<"Cross-Origin Request Blocked", ": The Same Origin Policy disallows reading">>

\* console messages of every severity, with and without a text of the
\* allow-list and with and without an abort signal
ListenerMsgs ==
    {[type |-> "error",   text |-> <<"X failed">>, location |-> Some(LocA)],
     [type |-> "log",     text |-> <<"hello">>, location |-> Some(LocA)],
     [type |-> "warning", text |-> CrossOrigin, location |-> None],
     [type |-> "log",     text |-> <<"Uncaught ", "ReferenceError: coveoua", " is not defined">>,
      location |-> Some(LocA)],
     [type |-> "error",   text |-> <<"Failed to load resource: ", "net::ERR_FAILED">>,
      location |-> Some(LocA)],
     [type |-> "warning", text |-> CrossOrigin \o <<" ", "net::ERR_ABORTED">>,
      location |-> Some(LocA)]}

\* uncaught exceptions with and without a stack
ListenerPageErrors ==
    {[message |-> <<"TypeError: x is undefined">>, stack |-> Some(<<"at f">>)],
     [message |-> <<"X failed">>, stack |-> None]}

\* responses: a script that is not found, and a PDF served for the page
ListenerResponses ==
    {[status |-> 404, url |-> <<"/missing.js">>, contentType |-> <<"text/html">>],
     [status |-> 200, url |-> <<"u1">>, contentType |-> <<"application/pdf">>]}

\* events whose argument cannot be read: a console message whose type()
\* throws, and a pageerror whose argument is null, so that error.message
\* throws a TypeError
MalformedEvents(t) ==
    {[task |-> t, malformed |-> TRUE, pageerror |-> None, response |-> None,
      console |-> Some([type |-> "error", text |-> <<"X failed">>, location |-> Some(LocA)])],
     [task |-> t, malformed |-> TRUE, console |-> None, response |-> None,
      pageerror |-> Some([message |-> <<"X failed">>, stack |-> None])]}

\* an emitted event: the call whose page emitted it and the argument its
\* listener is called with
EmittedEvents(t) ==
    {[task |-> t, console |-> Some(m), pageerror |-> None, response |-> None,
      malformed |-> FALSE] : m \in ListenerMsgs}
    \cup {[task |-> t, console |-> None, pageerror |-> Some(e), response |-> None,
           malformed |-> FALSE] : e \in ListenerPageErrors}
    \cup {[task |-> t, console |-> None, pageerror |-> None, response |-> Some(r),
           malformed |-> FALSE] : r \in ListenerResponses}
    \cup MalformedEvents(t)

\* the two pages emit in turn
RECURSIVE EmittedSeqs(_)
EmittedSeqs(n) ==
    IF n = 0 THEN {<<>>}
    ELSE LET shorter == EmittedSeqs(n - 1)
         IN  shorter \cup {Append(q, ev) : q \in {r \in shorter : Len(r) = n - 1},
                                           ev \in EmittedEvents(2 - (n % 2))}

\* processUrls(<<"u1", "u2">>) with both calls of the batch awaiting page.goto
InitListeners ==
    /\ options = [maxConcurrent |-> None, retryLimit |-> None]
    /\ config = Constructor(options)
    /\ emitted \in {[events |-> q, heard |-> 0, thrown |-> FALSE] : q \in EmittedSeqs(MaxEvents)}
    /\ urls = <<"u1", "u2">>
    /\ mainPc = "awaitBatch"
    /\ browserChunks = <<urls>>
    /\ chunkIndex = 1
    /\ batches = <<urls>>
    /\ batchIndex = 1
    /\ batchTasks = {1, 2}
    /\ results = <<>>
    /\ browsers = <<[state |-> "open", threw |-> FALSE]>>
    /\ tasks = [t \in 1..2 |-> [NewTask(urls[t], 1) EXCEPT !.pc = "goto", !.page = "open",
                                                          !.unclosed = 1]]
    /\ pageErrors = EmptyMap
    /\ errorGroups = EmptyMap
    /\ faults = 0
    /\ recorded = 0
    /\ runPc = "idle"
    /\ processedUrls = {}
    /\ history = <<>>
    /\ summary = None

\* the event the listeners run on next
Pending == emitted.events[emitted.heard + 1]

\* lines 106 and 124: the body of the console listener is a try block
\* whose catch block is empty
ConsoleCallback(errors, ev) ==
    IF ev.malformed THEN errors ELSE ConsoleListener(errors, ev.console[1])

\* lines 127-134: the pageerror listener has no try block: an exception
\* raised by error.message leaves the listener before anything is pushed
ListenerThrows(ev) == ev.pageerror # None /\ ev.malformed

PageErrorCallback(errors, ev) ==
    IF ListenerThrows(ev) THEN errors ELSE PageErrorListener(errors, ev.pageerror[1])

\* the next emitted event is of the page of call t, which is open
NextEmitted(t) ==
    /\ emitted.heard < Len(emitted.events)
    /\ Pending.task = t
    /\ tasks[t].pc \in {"goto", "settle", "closing"}
    /\ emitted' = [emitted EXCEPT !.heard = @ + 1, !.thrown = @ \/ ListenerThrows(Pending)]
    /\ UNCHANGED <<config, urls, mainPc, browserChunks, chunkIndex, batches, batchIndex,
                   batchTasks, results, browsers, runPc, processedUrls, history,
                   summary, options>>

\* lines 105-125: the console listener runs on the next emitted event
ConsoleEmitted(t) ==
    /\ NextEmitted(t)
    /\ Pending.console # None
    /\ Pushed(t, ConsoleCallback(tasks[t].errors, Pending))

\* lines 127-134: the pageerror listener runs on the next emitted event
PageErrorEmitted(t) ==
    /\ NextEmitted(t)
    /\ Pending.pageerror # None
    /\ Pushed(t, PageErrorCallback(tasks[t].errors, Pending))

\* lines 93-100: the response listener runs on the next emitted event
ResponseEmitted(t) ==
    /\ NextEmitted(t)
    /\ Pending.response # None
    /\ Pushed(t, ResponseListener(tasks[t].errors, tasks[t].url, Pending.response[1]))

NextListeners ==
    \/ \E t \in Outstanding : ConsoleEmitted(t)
    \/ \E t \in Outstanding : PageErrorEmitted(t)
    \/ \E t \in Outstanding : ResponseEmitted(t)
    \/ \E t \in Outstanding : GotoResolves(t)
    \/ \E t \in Outstanding : SettleElapsed(t)
    \/ \E t \in Outstanding : PageCloseResolves(t)

SpecListeners == InitListeners /\ [][NextListeners]_vars

----------------------------------------------------------------------------
(* Properties *)

TaskIds == 1..Len(tasks)

NoSessionFatal ==
    /\ mainPc = "returned"
    /\ \A i \in 1..Len(browsers) : ~browsers[i].threw

\* C1: when processUrls has returned and no session threw, pageErrors has an
\* entry for exactly the URLs of the list, each entry being the result of its
\* own key, however many retries were needed.
C1_OneResultPerUrl ==
    NoSessionFatal =>
        /\ DOMAIN pageErrors = Range(urls)
        /\ \A u \in DOMAIN pageErrors : pageErrors[u].url = u

\* C1 witness: a returned run of two or more URLs in which awaits rejected
\* and calls retried, with one result per URL.
C1_Witness ==
    /\ NoSessionFatal
    /\ Len(urls) >= 2
    /\ faults >= 2
    /\ Len(results) = Len(urls)
    /\ DOMAIN pageErrors = Range(urls)

\* C2 as stated: every stored PageResult has success = false exactly when its
\* diagnostics are empty and its failureReason is set, and a PageResult with
\* success = true has no failureReason.
C2_Original ==
    \A u \in DOMAIN pageErrors :
        LET r == pageErrors[u] IN
        /\ (r.success = FALSE) <=> (r.errors = <<>> /\ r.failureReason # None)
        /\ r.success => r.failureReason = None

\* C2 amended: a stored PageResult has success = false exactly when its
\* diagnostics are empty and its failureReason is set to something else than
\* the policy-abort reason; a PageResult with success = true has no
\* failureReason unless it is the policy-abort result, which has empty
\* diagnostics and the reason "Resource blocked (PDF/Font)".
C2_Amended ==
    \A u \in DOMAIN pageErrors :
        LET r == pageErrors[u] IN
        /\ (r.success = FALSE) <=>
               (r.errors = <<>> /\ r.failureReason \notin {None, Some(BlockedReason)})
        /\ (r.success /\ r.failureReason # None) =>
               (r.failureReason = Some(BlockedReason) /\ r.errors = <<>> /\ r.errorCount = 0)

\* C2 witness: a failed result and a successful result without reason are
\* stored side by side.
C2_Witness ==
    \E u, v \in DOMAIN pageErrors :
        /\ pageErrors[u].success = FALSE
        /\ pageErrors[u].failureReason # None
        /\ pageErrors[v].success
        /\ pageErrors[v].failureReason = None

\* C3: a call all of whose attempts failed in navigation with a retryable
\* error settles only after retryLimit + 1 navigation attempts, and in that
\* step stores and returns a failure whose reason is the error of the last
\* attempt.
C3_RetriesThenFails ==
    [][\A t \in TaskIds :
          (tasks[t].pc # "done" /\ tasks'[t].pc = "done" /\ tasks'[t].navFails >= 1) =>
              /\ tasks'[t].navFails = config.retryLimit + 1
              /\ tasks[t].error # None
              /\ tasks'[t].ret = Some([url |-> tasks[t].url, success |-> FALSE,
                                       error |-> tasks[t].error[1]])
              /\ pageErrors'[tasks[t].url].success = FALSE
              /\ pageErrors'[tasks[t].url].failureReason = tasks[t].error
      ]_vars

\* C3 witness: a call has settled after three navigation attempts that all
\* timed out.
C3_Witness ==
    \E t \in TaskIds :
        /\ tasks[t].pc = "done"
        /\ tasks[t].navFails = 3
        /\ tasks[t].ret = Some([url |-> tasks[t].url, success |-> FALSE,
                                error |-> ErrTimeout])
        /\ pageErrors[tasks[t].url].failureReason = Some(ErrTimeout)

C5_FailedAttemptLeavesNoGroup ==
    [][\A t \in TaskIds :
          /\ (tasks[t].pc = "newPage" /\ tasks'[t].pc = "goto") => tasks'[t].errors = <<>>
          /\ (tasks[t].pc = "closing" /\ tasks'[t].pc \in {"catchClose", "backoff"}) =>
                 \A s \in tasks[t].added : tasks[t].url \notin errorGroups'[s].pages
      ]_vars

\* C6: a settled call has left no page it acquired without close() invoked,
\* and no call ever holds more than one such page.
C6_PagesClosed ==
    \A t \in TaskIds :
        /\ tasks[t].unclosed <= 1
        /\ tasks[t].pc \in {"done", "collected"} => tasks[t].unclosed = 0

\* C6 witness: a call that acquired pages has settled with its retries
\* exhausted.
C6_Witness ==
    \E t \in TaskIds :
        /\ tasks[t].pc = "done"
        /\ tasks[t].page = "closeCalled"
        /\ tasks[t].retries = config.retryLimit + 1
        /\ tasks[t].unclosed = 0

\* C7: whenever processUrls awaits a launch or has returned, every browser
\* launched before is closed, also a browser whose session threw.
C7_BrowsersClosed ==
    mainPc \in {"launching", "returned"} =>
        \A i \in 1..Len(browsers) : browsers[i].state = "closed"

\* C7 witness: the second launch is awaited after the first session threw
\* and its browser was closed.
C7_Witness ==
    /\ mainPc = "launching"
    /\ chunkIndex = 2
    /\ browsers[1].threw
    /\ browsers[1].state = "closed"

\* C8 as stated: processUrls never rejects; a session-fatal failure is caught
\* and the later chunks are processed.
C8_NeverRejects == mainPc # "rejected"

\* C9: at most config.maxConcurrent processUrl calls are started and not
\* settled.
C9_ConcurrencyCeiling == Cardinality(Outstanding) <= config.maxConcurrent

\* C9 witness: two calls are outstanding under maxConcurrent = 2.
C9_Witness ==
    /\ config.maxConcurrent = 2
    /\ Cardinality(Outstanding) = 2

RECURSIVE Flatten(_)
Flatten(ss) == IF ss = <<>> THEN <<>> ELSE Head(ss) \o Flatten(Tail(ss))

\* C10: the chunks processUrls builds have between 1 and 50 URLs each, and
\* put end to end they are the URL list: consecutive, disjoint by position
\* and covering it in order.
C10_ChunksPartition ==
    mainPc = "split" =>
        /\ \A c \in 1..Len(browserChunks) :
               Len(browserChunks[c]) \in 1..BROWSER_ROTATION_LIMIT
        /\ Flatten(browserChunks) = urls

\* C10 witness: a list of more than 100 URLs was split into three chunks.
C10_Witness ==
    /\ mainPc = "split"
    /\ Len(urls) > 2 * BROWSER_ROTATION_LIMIT
    /\ Len(browserChunks) = 3
    /\ Len(browserChunks[3]) < BROWSER_ROTATION_LIMIT

\* C11: a batch of processUrl calls starts only when no call is outstanding,
\* the outstanding calls are always calls of the current batch, and results
\* grows only in a step before which every call of the batch had settled,
\* by the values of exactly those calls.
C11_BatchBarrier ==
    [][/\ Len(tasks') > Len(tasks) => Outstanding = {}
       /\ \A t \in TaskIds : tasks[t].pc \notin {"done", "collected"} => t \in batchTasks
       /\ results' # results =>
              /\ \A t \in batchTasks : tasks[t].pc = "done"
              /\ results' = results \o BatchResults(batchTasks)
      ]_vars

\* C11 witness: the second batch of a session is running, after the results
\* of the first batch, one of whose calls had to retry, were appended.
C11_Witness ==
    /\ mainPc = "awaitBatch"
    /\ batchIndex = 2
    /\ Len(results) = Len(batches[1])
    /\ faults >= 1
    /\ Outstanding # {}
    /\ Outstanding \subseteq batchTasks

\* C12: a step of one processUrl call (a rejected await, a retry, a stored
\* failure) leaves every other call as it was, its retry counter included; a
\* call that settles has a result of its own URL stored and returned, and it
\* settles in failure only with its own retries exhausted.
C12_SiblingsIndependent ==
    [][\A t \in TaskIds :
          /\ (tasks'[t] # tasks[t] /\ tasks'[t].pc # "collected") =>
                 \A u \in TaskIds \ {t} : tasks'[u] = tasks[u]
          /\ (tasks[t].pc # "done" /\ tasks'[t].pc = "done") =>
                 /\ tasks'[t].ret # None
                 /\ tasks'[t].ret[1].url = tasks[t].url
                 /\ tasks[t].url \in DOMAIN pageErrors'
                 /\ pageErrors'[tasks[t].url].url = tasks[t].url
                 /\ ~tasks'[t].ret[1].success => tasks'[t].retries = config.retryLimit + 1
      ]_vars

\* C12 witness: of two calls of one batch, one has settled in failure with
\* its retries exhausted and the other in success without any retry.
C12_Witness ==
    \E t, u \in batchTasks :
        /\ tasks[t].pc = "done" /\ tasks[u].pc = "done"
        /\ tasks[t].ret # None /\ ~tasks[t].ret[1].success
        /\ tasks[t].retries = config.retryLimit + 1
        /\ tasks[u].ret # None /\ tasks[u].ret[1].success
        /\ tasks[u].retries = 0
        /\ tasks[u].url # tasks[t].url

UrlOf(e) == IF LocationUrl(e) = Some(<<>>) THEN None ELSE LocationUrl(e)

SameTextAndUrl(e1, e2) == e1.text = e2.text /\ UrlOf(e1) = UrlOf(e2)

\* C14: two records of an attempt with equal text and equal location url, or
\* equal text and both without a location url, have the same signature,
\* whatever their type, line or stack; once aggregated they are in one group.
C14_SignatureOfTextAndUrl ==
    \A t \in TaskIds :
        LET errors == tasks[t].errors IN
        \A i, j \in 1..Len(errors) :
            SameTextAndUrl(errors[i], errors[j]) =>
                /\ getErrorSignature(errors[i]) = getErrorSignature(errors[j])
                /\ tasks[t].pc = "closing" =>
                       \E s \in DOMAIN errorGroups :
                           /\ s = getErrorSignature(errors[i])
                           /\ s = getErrorSignature(errors[j])
                           /\ tasks[t].url \in errorGroups[s].pages

\* C14 witness: an uncaught exception and a console error without location,
\* of equal text, were aggregated into one group.
C14_Witness ==
    \E t \in TaskIds :
        /\ tasks[t].pc = "closing"
        /\ Len(tasks[t].errors) = 2
        /\ tasks[t].errors[1].type # tasks[t].errors[2].type
        /\ tasks[t].errors[1].location # tasks[t].errors[2].location
        /\ SameTextAndUrl(tasks[t].errors[1], tasks[t].errors[2])
        /\ Cardinality(DOMAIN errorGroups) = 1

\* C15 as stated: two records of an attempt whose text differs or whose
\* location url differs have different signatures, and once aggregated they
\* are in two different groups.
C15_SignatureInjective ==
    \A t \in TaskIds :
        LET errors == tasks[t].errors IN
        tasks[t].pc = "closing" =>
            \A i, j \in 1..Len(errors) :
                ~SameTextAndUrl(errors[i], errors[j]) =>
                    /\ getErrorSignature(errors[i]) # getErrorSignature(errors[j])
                    /\ Cardinality(DOMAIN errorGroups) = 2

\* the URLs whose stored PageResult is a success with a diagnostic of
\* signature s
ScannedWith(s) ==
    {u \in DOMAIN pageErrors :
        pageErrors[u].success /\ s \in Signatures(pageErrors[u].errors)}

CleanUrls ==
    {u \in DOMAIN pageErrors : pageErrors[u].success /\ pageErrors[u].errors = <<>>}

\* C16 as stated: when processUrls has returned and no session threw, every
\* diagnostic captured on successfully scanned URLs has exactly one group,
\* whose pages are exactly those URLs, and a URL that scanned clean has
\* errorCount 0 and is in the pages of no group.
C16_SharedDiagnosticOneGroup ==
    NoSessionFatal =>
        /\ \A u \in DOMAIN pageErrors :
               \A s \in Signatures(pageErrors[u].errors) :
                   pageErrors[u].success =>
                       (s \in DOMAIN errorGroups /\ errorGroups[s].pages = ScannedWith(s))
        /\ \A u \in CleanUrls :
               /\ pageErrors[u].errorCount = 0
               /\ \A s \in DOMAIN errorGroups : u \notin errorGroups[s].pages

\* C17: in every step of a run each existing group stays, under its
\* signature and with its text, location and sample record unchanged, and
\* its pages only grow; a URL is added to the pages of a group only in a step
\* that stores for that URL, a URL of the run, a successful result with a
\* diagnostic of the group's signature.
C17_GroupsOnlyGrow ==
    [][/\ \A s \in DOMAIN errorGroups :
              /\ s \in DOMAIN errorGroups'
              /\ errorGroups'[s].signature = s
              /\ errorGroups'[s].signature = errorGroups[s].signature
              /\ errorGroups'[s].errorText = errorGroups[s].errorText
              /\ errorGroups'[s].errorLocation = errorGroups[s].errorLocation
              /\ errorGroups'[s].sampleError = errorGroups[s].sampleError
              /\ errorGroups[s].pages \subseteq errorGroups'[s].pages
       /\ \A s \in DOMAIN errorGroups' :
              /\ errorGroups'[s].signature = s
              /\ getErrorSignature(errorGroups'[s].sampleError) = s
              /\ \A u \in errorGroups'[s].pages :
                     (s \notin DOMAIN errorGroups \/ u \notin errorGroups[s].pages) =>
                         /\ u \in Range(urls)
                         /\ pageErrors'[u].success
                         /\ s \in Signatures(pageErrors'[u].errors)
      ]_vars

\* C17 witness: a group created for one URL has grown to two URLs next to
\* another group.
C17_Witness ==
    \E s \in DOMAIN errorGroups :
        /\ Cardinality(errorGroups[s].pages) = 2
        /\ Cardinality(DOMAIN errorGroups) = 2

\* C18: processUrls called with the empty list awaits nothing: it makes no
\* chunk, launches no browser, starts no processUrl call, never rejects,
\* leaves pageErrors and errorGroups empty, and returns the empty sequence.
C18_EmptyList ==
    urls = <<>> =>
        /\ mainPc \in {"ready", "returned"}
        /\ browserChunks = <<>>
        /\ browsers = <<>>
        /\ tasks = <<>>
        /\ results = <<>>
        /\ pageErrors = EmptyMap
        /\ errorGroups = EmptyMap

\* C18 witness: processUrls has returned from the call with the empty list.
C18_Witness ==
    /\ urls = <<>>
    /\ mainPc = "returned"
    /\ results = <<>>

\* C19: when run() awaits generateUrls, pageErrors, processedUrls and
\* errorGroups are empty and no processUrl call of an earlier run is left to
\* write to them; from then on every PageResult, every processed URL and
\* every page of every group is a URL of this run, so nothing that only an
\* earlier run produced is in the state the run reports.
C19_RunStartsClean ==
    /\ runPc = "generateUrls" =>
           /\ pageErrors = EmptyMap
           /\ processedUrls = {}
           /\ errorGroups = EmptyMap
           /\ Outstanding = {}
    /\ runPc \notin {"idle", "generateUrls"} =>
           /\ DOMAIN pageErrors \subseteq Range(urls)
           /\ processedUrls = Range(urls)
           /\ \A s \in DOMAIN errorGroups :
                  /\ errorGroups[s].pages # {}
                  /\ errorGroups[s].pages \subseteq Range(urls)

\* C19 witness: the second run, of u1 alone, has written its reports with a
\* result for u1 and no group, after a first run that left results for u1
\* and u2 and a group.
C19_Witness ==
    /\ Len(history) = 2
    /\ history[2].cleared.pages = {"u1", "u2"}
    /\ history[2].cleared.groups # {}
    /\ urls = <<"u1">>
    /\ runPc = "writeLatest"
    /\ DOMAIN pageErrors = {"u1"}
    /\ processedUrls = {"u1"}
    /\ errorGroups = EmptyMap

RECURSIVE SumLengths(_)
SumLengths(pages) ==
    IF pages = {} THEN 0
    ELSE LET u == CHOOSE v \in pages : TRUE
         IN  Len(pageErrors[u].errors) + SumLengths(pages \ {u})

\* C20 as stated: the summary of a run's report agrees with the state it is
\* derived from: total is the number of distinct URLs of the run, withErrors
\* the number of PageResults with a diagnostic, failed the number of
\* PageResults with success = false, totalErrors the sum of the lengths of
\* the diagnostics lists, uniqueErrors the number of groups, and withErrors
\* + failed is at most total.
C20_SummaryConsistent ==
    summary # None =>
        LET sm == summary[1] IN
        /\ sm.total = Cardinality(Range(urls))
        /\ sm.withErrors =
               Cardinality({u \in DOMAIN pageErrors : pageErrors[u].errors # <<>>})
        /\ sm.failed = Cardinality({u \in DOMAIN pageErrors : ~pageErrors[u].success})
        /\ sm.totalErrors = SumLengths(DOMAIN pageErrors)
        /\ sm.uniqueErrors = Cardinality(DOMAIN errorGroups)
        /\ sm.withErrors + sm.failed <= sm.total

\* C21 as stated: with the retry limit n given to the constructor, n = 0
\* included, an attempt under way is at most re-attempt number n, and a call
\* makes at most n + 1 failed navigation attempts.
C21_ConfiguredRetryLimit ==
    options.retryLimit # None =>
        LET n == options.retryLimit[1] IN
        \A t \in TaskIds :
            /\ tasks[t].pc \in {"newPage", "goto", "settle", "closing"} => tasks[t].retries <= n
            /\ tasks[t].navFails <= n + 1

\* the catch block of call t runs in this step on the error the call caught
CatchRuns(t) ==
    /\ tasks[t].pc = "catchClose"
    /\ tasks'[t] # tasks[t]

\* browser.newPage() of the first attempt of call t rejected in this step,
\* and the catch block ran at once, no page being there to close
CatchRunsAtOnce(t) ==
    /\ tasks[t].pc = "newPage"
    /\ tasks'[t].pc \in {"backoff", "done"}

\* the catch block of call t counted a retry and either backs off for
\* another attempt, with nothing stored, or ends the call with a stored
\* failure
TreatedAsRetryable(t) ==
    /\ tasks'[t].retries = tasks[t].retries + 1
    /\ \/ /\ tasks'[t].pc = "backoff"
          /\ tasks'[t].retries <= config.retryLimit
          /\ pageErrors' = pageErrors
       \/ /\ tasks'[t].pc = "done"
          /\ tasks'[t].retries > config.retryLimit
          /\ ~tasks'[t].ret[1].success
          /\ pageErrors'[tasks[t].url].success = FALSE

\* C22 as stated: every failure of an attempt that is not the crawler's own
\* abort of the primary document is treated as retryable and never stored
\* as a successful scan.
C22_Original ==
    [][\A t \in TaskIds :
          /\ (CatchRuns(t) /\ ~tasks[t].policy) => TreatedAsRetryable(t)
          /\ CatchRunsAtOnce(t) => TreatedAsRetryable(t)
      ]_vars

\* C22 amended: every failure of an attempt whose message carries neither
\* net::ERR_ABORTED nor net::ERR_FAILED is treated as retryable and never
\* stored as a successful scan; a failure whose message carries one of the
\* two is stored as a successful scan without diagnostics, whether the
\* crawler aborted the document or not.
C22_Amended ==
    [][\A t \in TaskIds :
          /\ CatchRuns(t) =>
                 IF IsAbortSignal(tasks[t].error[1])
                 THEN /\ tasks'[t].pc = "done"
                      /\ tasks'[t].ret[1].success
                      /\ pageErrors'[tasks[t].url] = BlockedResult(tasks[t].url)
                 ELSE TreatedAsRetryable(t)
          /\ CatchRunsAtOnce(t) => TreatedAsRetryable(t)
      ]_vars

\* C22 witness: a call whose navigation timed out and then met a network
\* failure that was not the crawler's abort has ended with a successful
\* result, after one retry.
C22_Witness ==
    \E t \in TaskIds :
        /\ tasks[t].pc = "done"
        /\ tasks[t].retries = 1
        /\ tasks[t].ret = Some([url |-> tasks[t].url, success |-> TRUE, errorCount |-> 0])
        /\ pageErrors[tasks[t].url] = BlockedResult(tasks[t].url)

\* C23: the delay a call waits after its k-th failed attempt is 1000 * k
\* milliseconds, longer than the delay it waited before; a delay is waited
\* only with another attempt to come, and the step that ends the call after
\* its last failed attempt waits for none.
C23_LinearBackoff ==
    [][\A t \in TaskIds :
          /\ (tasks[t].pc # "backoff" /\ tasks'[t].pc = "backoff") =>
                 /\ tasks'[t].retries = tasks[t].retries + 1
                 /\ tasks'[t].delay = 1000 * tasks'[t].retries
                 /\ tasks'[t].delay > tasks[t].delay
                 /\ tasks'[t].retries <= config.retryLimit
          /\ (tasks[t].pc = "backoff" /\ tasks'[t] # tasks[t]) => tasks'[t].pc = "newPage"
          /\ (tasks[t].pc # "done" /\ tasks'[t].pc = "done") =>
                 /\ tasks[t].pc # "backoff"
                 /\ tasks'[t].delay = tasks[t].delay
                 /\ tasks'[t].delay = 1000 * (IF tasks'[t].ret[1].success
                                              THEN tasks'[t].retries
                                              ELSE tasks'[t].retries - 1)
      ]_vars

\* C23 witness: a call waits 2000 ms after its second failed attempt, and
\* another has ended after its third failed attempt having last waited
\* 2000 ms.
C23_Witness ==
    \/ \E t \in TaskIds :
           /\ tasks[t].pc = "done"
           /\ tasks[t].retries = 3
           /\ tasks[t].delay = 2000
           /\ ~tasks[t].ret[1].success

\* C24: in the step that collects the results of batch i of a chunk,
\* processUrls goes on to wait the cooldown exactly when i is not the last
\* batch of the chunk, and after the last batch it goes on to close the
\* browser; the cooldown is waited for nowhere else, and the next batch
\* starts only when it has elapsed.
C24_CooldownBetweenBatches ==
    [][/\ results' # results =>
              /\ mainPc = "awaitBatch"
              /\ (mainPc' = "cooldown") <=> (batchIndex < Len(batches))
              /\ (mainPc' = "closing") <=> (batchIndex = Len(batches))
       /\ (mainPc' = "cooldown" /\ mainPc # "cooldown") => results' # results
       /\ (batchIndex' # batchIndex /\ mainPc # "launching") => mainPc = "cooldown"
       /\ mainPc = "cooldown" =>
              /\ batchIndex' = batchIndex + 1
              /\ batchIndex' <= Len(batches)
              /\ mainPc' = "awaitBatch"
      ]_vars

\* C24 witness: the second and last batch of a chunk has been collected and
\* the browser is being closed with no cooldown; the cooldown was waited
\* after the first batch.
C24_Witness ==
    /\ mainPc = "closing"
    /\ Len(batches) = 2
    /\ batchIndex = 2
    /\ Len(results) = 2
    /\ ~browsers[chunkIndex].threw

RECURSIVE InOrderOf(_, _)
InOrderOf(got, list) ==
    IF got = <<>> THEN TRUE
    ELSE IF list = <<>> THEN FALSE
    ELSE IF got[1] # None /\ got[1][1].url = list[1] /\ InOrderOf(Tail(got), Tail(list))
         THEN TRUE
         ELSE InOrderOf(got, Tail(list))

\* C25: the results collected so far are values of calls for URLs of the
\* list in the order of the list, so a result of an earlier batch or chunk
\* precedes every result of a later one whatever order the calls settled in;
\* while no session has thrown they are, position by position, the results
\* of the first URLs of the list, and when processUrls returns then, results
\* has one entry per URL of the list.
C25_GroupOrderPreserved ==
    /\ InOrderOf(results, urls)
    /\ (\A i \in 1..Len(browsers) : ~browsers[i].threw) =>
           /\ Len(results) <= Len(urls)
           /\ \A k \in 1..Len(results) : results[k] # None /\ results[k][1].url = urls[k]
    /\ NoSessionFatal => Len(results) = Len(urls)

\* C25 witness: processUrls returned the results of three URLs in two
\* sessions in the order of the list, although in the batch of two the
\* second call settled before the first.
C25_Witness ==
    /\ NoSessionFatal
    /\ Len(urls) = 3
    /\ Len(results) = 3
    /\ tasks[2].overtook
    /\ \A k \in 1..3 : results[k][1].url = urls[k]

C27_OneScanPerUrl ==
    \A t, u \in TaskIds : tasks[t].url = tasks[u].url => t = u

\* the step in which a listener runs on an emitted event
Listens == emitted'.heard = emitted.heard + 1

\* C28: when the console listener runs on a message, it appends one record
\* of the message to the errors of the call whose page emitted it if the type
\* is 'error' or the text holds 'Cross-Origin Request Blocked' or
\* 'ReferenceError: coveoua', and the text holds no abort signal; otherwise
\* the errors stay as they are.  The errors of the other call stay as they
\* are in both cases.
C28_ConsoleRule ==
    [][(Listens /\ Pending.console # None /\ ~Pending.malformed) =>
          LET m == Pending.console[1]
              t == Pending.task
              before == tasks[t].errors
              after == tasks'[t].errors
              significant ==
                  \/ m.type = "error"
                  \/ Includes(m.text, "Cross-Origin Request Blocked")
                  \/ Includes(m.text, "ReferenceError: coveoua")
              aborted ==
                  \/ Includes(m.text, "net::ERR_FAILED")
                  \/ Includes(m.text, "net::ERR_ABORTED")
          IN  /\ IF significant /\ ~aborted
                 THEN /\ Len(after) = Len(before) + 1
                      /\ SubSeq(after, 1, Len(before)) = before
                      /\ after[Len(after)].text = m.text
                      /\ after[Len(after)].type = m.type
                      /\ after[Len(after)].location =
                            (IF m.location = None THEN Some(EmptyObject) ELSE m.location)
                 ELSE after = before
              /\ \A u \in TaskIds \ {t} : tasks'[u] = tasks[u]
      ]_vars

\* C28 witness: the listeners ran on a warning of the allow-list on the first
\* page, which was recorded, and on a log message of no significance on the
\* second, which was not.
C28_Witness ==
    /\ emitted.heard = 2
    /\ emitted.events[1].console # None
    /\ emitted.events[1].console[1].type = "warning"
    /\ emitted.events[2].console # None
    /\ emitted.events[2].console[1].text = <<"hello">>
    /\ Len(tasks[1].errors) = 1
    /\ tasks[1].errors[1].type = "warning"
    /\ tasks[2].errors = <<>>
    /\ tasks[2].pc = "settle"

\* a record of a console message whose text holds an abort signal
AbortRecord(r) ==
    /\ r.type # "pageerror"
    /\ Includes(r.text, "net::ERR_FAILED") \/ Includes(r.text, "net::ERR_ABORTED")

NoAbortRecord ==
    /\ \A t \in TaskIds : \A i \in 1..Len(tasks[t].errors) :
          ~AbortRecord(tasks[t].errors[i])
    /\ \A u \in DOMAIN pageErrors : \A i \in 1..Len(pageErrors[u].errors) :
          ~AbortRecord(pageErrors[u].errors[i])
    /\ \A g \in DOMAIN errorGroups : ~AbortRecord(errorGroups[g].sampleError)

\* C29: when the console listener runs on a message whose text holds
\* net::ERR_FAILED or net::ERR_ABORTED, whatever its type and whatever else
\* its text matches, the calls, pageErrors and errorGroups stay as they are;
\* and no errors array of a call, no stored PageResult and no ErrorGroup ever
\* holds the record of such a message.
C29_AbortSignalDiscarded ==
    /\ [][(/\ Listens
           /\ Pending.console # None
           /\ \/ Includes(Pending.console[1].text, "net::ERR_FAILED")
              \/ Includes(Pending.console[1].text, "net::ERR_ABORTED"))
          => /\ tasks' = tasks
             /\ pageErrors' = pageErrors
             /\ errorGroups' = errorGroups
        ]_vars
    /\ []NoAbortRecord

\* C29 witness: the listeners ran on an error message with net::ERR_FAILED
\* on the first page and on a message of the allow-list with net::ERR_ABORTED
\* on the second; both results are stored without a diagnostic and there is
\* no group.
C29_Witness ==
    /\ emitted.heard = 2
    /\ emitted.events[1].console # None
    /\ emitted.events[1].console[1].type = "error"
    /\ Includes(emitted.events[1].console[1].text, "net::ERR_FAILED")
    /\ emitted.events[2].console # None
    /\ Includes(emitted.events[2].console[1].text, "Cross-Origin Request Blocked")
    /\ Includes(emitted.events[2].console[1].text, "net::ERR_ABORTED")
    /\ DOMAIN pageErrors = {"u1", "u2"}
    /\ \A u \in DOMAIN pageErrors : pageErrors[u].errors = <<>> /\ pageErrors[u].success
    /\ errorGroups = EmptyMap

UnknownSignature(text) == text \o <<"|||", "unknown">>

\* the records of uncaught exceptions in an errors array
PageErrorRecords(errors) == {errors[i] : i \in {k \in 1..Len(errors) : errors[k].type = "pageerror"}}

PageErrorRecordsUnlocated ==
    /\ \A t \in TaskIds : \A r \in PageErrorRecords(tasks[t].errors) :
          r.location = None /\ getErrorSignature(r) = UnknownSignature(r.text)
    /\ \A u \in DOMAIN pageErrors : \A r \in PageErrorRecords(pageErrors[u].errors) :
          r.location = None /\ getErrorSignature(r) = UnknownSignature(r.text)

C31_HttpStatusRecorded ==
    [][(Listens /\ Pending.response # None /\ Pending.response[1].status >= 400) =>
          LET t == Pending.task
              after == tasks'[t].errors
          IN  /\ Len(after) = Len(tasks[t].errors) + 1
              /\ LocationUrl(after[Len(after)]) = Some(Pending.response[1].url)
      ]_vars

\* C32 as stated: a listener that runs on an event whose fields cannot be
\* read adds no record and does not throw, and the call whose page emitted
\* the event goes on.
C32_MalformedEventDropped ==
    /\ [][(Listens /\ Pending.malformed) => tasks' = tasks]_vars
    /\ [](~emitted.thrown)

PagesOf(groups, s) == IF s \in DOMAIN groups THEN groups[s].pages ELSE {}

\* C33: when a call aggregates its errors, the pages of the group of each of
\* their signatures become the pages it had and the URL of the call, however
\* many of the errors have that signature: the URL is in the pages once and
\* their number grows by one at most, while the stored errorCount is the
\* number of the errors.
C33_AddPageIdempotent ==
    [][\A t \in TaskIds :
          (tasks[t].pc = "settle" /\ tasks'[t].pc = "closing") =>
              /\ \A s \in Signatures(tasks[t].errors) :
                    /\ PagesOf(errorGroups', s) = PagesOf(errorGroups, s) \cup {tasks[t].url}
                    /\ Cardinality(PagesOf(errorGroups', s)) <=
                           Cardinality(PagesOf(errorGroups, s)) + 1
              /\ pageErrors'[tasks[t].url].errorCount = Len(tasks[t].errors)
      ]_vars

\* C33 witness: a page emitted two diagnostics of one signature; its result
\* is stored with errorCount 2 and the group lists its URL alone.
C33_Witness ==
    \E t \in TaskIds :
        /\ tasks[t].pc = "closing"
        /\ Len(tasks[t].errors) = 2
        /\ getErrorSignature(tasks[t].errors[1]) = getErrorSignature(tasks[t].errors[2])
        /\ pageErrors[tasks[t].url].errorCount = 2
        /\ errorGroups[getErrorSignature(tasks[t].errors[1])].pages = {tasks[t].url}

\* C34 as stated: a URL is in the pages of the group of signature s exactly
\* when the PageResult stored for the URL has success = true and holds a
\* diagnostic of signature s (the aggregation of a call is one step, so it is
\* in progress in no state).
C34_GroupsMatchPages ==
    /\ \A s \in DOMAIN errorGroups : \A u \in errorGroups[s].pages :
          /\ u \in DOMAIN pageErrors
          /\ pageErrors[u].success
          /\ s \in Signatures(pageErrors[u].errors)
    /\ \A u \in DOMAIN pageErrors : \A s \in Signatures(pageErrors[u].errors) :
          pageErrors[u].success => u \in PagesOf(errorGroups, s)

\* C35 as stated: the errorCount of every stored PageResult is the length of
\* its errors.
C35_ErrorCountIsLength ==
    \A u \in DOMAIN pageErrors : pageErrors[u].errorCount = Len(pageErrors[u].errors)

Grouped(u, errors) ==
    \A i \in 1..Len(errors) : u \in PagesOf(errorGroups, getErrorSignature(errors[i]))

\* C36 as stated: the step that stores a successful PageResult for a URL
\* also adds the URL to the group of each of its diagnostics, and in no
\* state does a stored successful PageResult hold a diagnostic whose group
\* does not list the URL.
C36_AggregationAtomic ==
    /\ [][\A t \in TaskIds :
            (tasks[t].pc = "settle" /\ tasks'[t].pc # "settle") =>
                /\ pageErrors'[tasks[t].url].errors = tasks[t].errors
                /\ \A s \in Signatures(tasks[t].errors) :
                      tasks[t].url \in PagesOf(errorGroups', s)
                /\ \A u \in TaskIds \ {t} : tasks'[u] = tasks[u]
       ]_vars
    /\ [](\A u \in DOMAIN pageErrors :
             pageErrors[u].success => Grouped(u, pageErrors[u].errors))

\* C37 as stated: no run clears the collections while another run is under
\* way and has not reported, and when a run whose sessions did not throw
\* builds its report, pageErrors holds a result for every URL of the run and
\* for no other.
C37_RunsIsolated ==
    [][/\ Len(history') > Len(history) => runPc \in {"idle", "rejected"}
       /\ (runPc = "mkdir" /\ runPc' = "htmlReport" /\ \A i \in 1..Len(browsers) : ~browsers[i].threw)
             => /\ DOMAIN pageErrors = Range(urls)
                /\ summary'[1].total = Cardinality(Range(urls))
      ]_vars

\* C38 as stated: a run whose processUrls call has returned does not end
\* rejected.
C38_RunResolves ==
    [][(runPc \in {"mkdir", "htmlReport", "writeHtml", "writeLatest"}) => (runPc' # "rejected")]_vars

AttemptsBounded ==
    \A t \in TaskIds :
        /\ tasks[t].pc \in {"newPage", "goto", "settle", "closing", "catchClose", "backoff"}
              => tasks[t].retries <= config.retryLimit
        /\ tasks[t].pc = "done" =>
              /\ tasks[t].ret # None
              /\ tasks[t].ret[1].url = tasks[t].url
              /\ tasks[t].retries <= config.retryLimit + 1
              /\ tasks[t].ret[1].success => tasks[t].retries <= config.retryLimit

\* C39: a processUrl call is in its attempt number retries + 1, which is
\* never beyond retryLimit + 1, and a call that has settled returned a result
\* object of its URL; with every awaited operation settling, every call that
\* was started settles and processUrls settles.
C39_Terminates ==
    /\ []AttemptsBounded
    /\ \A t \in 1..MaxUrls :
          [](Len(tasks) >= t => <>(Len(tasks) >= t /\ tasks[t].pc \in {"done", "collected"}))
    /\ <>(mainPc \in {"returned", "rejected"})

\* C39 witness: processUrls has returned after a call with retryLimit 1
\* failed in both of its attempts and returned the failure.
C39_Witness ==
    /\ mainPc = "returned"
    /\ config.retryLimit = 1
    /\ faults = 2
    /\ Len(results) = 1
    /\ results[1] # None
    /\ ~results[1][1].success

TasksOfSession(b) == SelectSeq(tasks, LAMBDA task : task.browser = b)

\* C40: of the browsers one processUrls call launched at most one is open,
\* the one of the session chunk being processed; a processUrl call holds a
\* launched browser, the open one while the call is under way, and the calls
\* holding the browser of session b are for the URLs of chunk b, in order.
C40_OneBrowserAlive ==
    /\ Cardinality({i \in 1..Len(browsers) : browsers[i].state = "open"}) <= 1
    /\ \A i \in 1..Len(browsers) : browsers[i].state = "open" => i = chunkIndex
    /\ \A t \in TaskIds :
          /\ tasks[t].browser \in 1..Len(browsers)
          /\ tasks[t].pc \notin {"done", "collected"} =>
                /\ tasks[t].browser = chunkIndex
                /\ browsers[tasks[t].browser].state = "open"
    /\ \A b \in 1..Len(browsers) :
          LET mine == TasksOfSession(b)
          IN  /\ Len(mine) <= Len(browserChunks[b])
              /\ \A k \in 1..Len(mine) : mine[k].url = browserChunks[b][k]

\* C40 witness: the first session's browser is closed with its calls
\* collected, and a call of the second chunk is under way on the second browser.
C40_Witness ==
    /\ Len(browsers) = 2
    /\ browsers[1].state = "closed"
    /\ browsers[2].state = "open"
    /\ \E t \in TaskIds : tasks[t].browser = 1 /\ tasks[t].pc = "collected"
    /\ \E t \in TaskIds : tasks[t].browser = 2 /\ tasks[t].pc = "goto"

====
